---- MODULE Spec2Model ----
(***************************************************************************)
(* Model of the FASTA/FASTQ record reader of shenwei356/fastx              *)
(* (src/src/lib.rs, src/src/util.rs).  Bytes are integers 0..255, byte     *)
(* strings are sequences of bytes.  The byte source is an in-memory       *)
(* cursor: `reader` holds the bytes that have not been read yet.           *)
(***************************************************************************)
EXTENDS Integers, Sequences, FiniteSets, TLC

\* ------------------------------------------------------------------------
\* Bytes the code compares against
\* ------------------------------------------------------------------------
LF == 10
CR == 13
GT == 62
AT == 64
PLUS == 43
SP == 32
TAB == 9

\* ------------------------------------------------------------------------
\* Bounds of the model
\* ------------------------------------------------------------------------
MaxLines == 4
MaxRecs == 2
MaxCalls == 5
MaxBlank == 2
MaxHead == 4
MaxWrap == 3
MaxTail == 2
MaxSeqLen == 2

\* a `let` binding: v is evaluated once and used as x in F(x)
Bind(v, F(_)) == CHOOSE y \in {F(x) : x \in {v}} : TRUE

\* Option<Vec<u8>>
None == [some |-> FALSE, val |-> <<>>]
Some(v) == [some |-> TRUE, val |-> v]

\* ------------------------------------------------------------------------
\* seq.rs
\* ------------------------------------------------------------------------

\* make_rc_table: N everywhere, then the entries the function assigns
RC_TABLE ==
    [b \in 0..255 |->
        CASE b = 65 -> 84    [] b = 84 -> 65        \* A T
          [] b = 67 -> 71    [] b = 71 -> 67        \* C G
          [] b = 78 -> 78                           \* N
          [] b = 97 -> 116   [] b = 116 -> 97       \* a t
          [] b = 99 -> 103   [] b = 103 -> 99       \* c g
          [] b = 110 -> 110                         \* n
          [] b = 77 -> 75    [] b = 82 -> 89        \* M R
          [] b = 87 -> 87    [] b = 83 -> 83        \* W S
          [] b = 89 -> 82    [] b = 75 -> 77        \* Y K
          [] b = 86 -> 66    [] b = 72 -> 68        \* V H
          [] b = 68 -> 72    [] b = 66 -> 86        \* D B
          [] b = 109 -> 107  [] b = 114 -> 121      \* m r
          [] b = 119 -> 119  [] b = 115 -> 115      \* w s
          [] b = 121 -> 114  [] b = 107 -> 109      \* y k
          [] b = 118 -> 118  [] b = 104 -> 104      \* v h
          [] b = 100 -> 100  [] b = 98 -> 98        \* d b
          [] b = 46 -> 46    [] b = 45 -> 45        \* . -
          [] b = 32 -> 32                           \* space
          [] OTHER -> 78]

\* Seq::rc: the table entry of every base, last base first
rc(seq) == [i \in 1..Len(seq) |-> RC_TABLE[seq[Len(seq) + 1 - i]]]

\* Seq::rc_unsafe: pushes the table entry of every base, last base first;
\* a base is a u8, so the pointer stays inside the 256 entries
RECURSIVE rc_unsafe_push(_, _, _)
rc_unsafe_push(seq, i, out) ==
    IF i = 0 THEN out ELSE rc_unsafe_push(seq, i - 1, Append(out, RC_TABLE[seq[i]]))

rc_unsafe(seq) == rc_unsafe_push(seq, Len(seq), <<>>)

\* the closure gc_content counts with: `matches!(b, b'A' | b'C' | b'G' | b'T')`
gc_counted(b) == b \in {65, 67, 71, 84}

\* Seq::gc_content, as <<numerator, denominator>>; 0.0 is <<0, 1>>; the
\* numerator is count_base_fn: the bytes of the sequence the closure accepts
gc_content(seq) ==
    IF Len(seq) = 0 THEN <<0, 1>>
    ELSE <<Len(SelectSeq(seq, gc_counted)), Len(seq)>>

\* ------------------------------------------------------------------------
\* util.rs
\* ------------------------------------------------------------------------

\* drops the trailing LF and leaves a CR before it in place
trim_lf(line) ==
    LET n0 == Len(line)
        n1 == IF n0 > 0 /\ line[n0] = LF THEN n0 - 1 ELSE n0
    IN SubSeq(line, 1, n1)

\* trim_crlf: drop one trailing LF, then one trailing CR
trim_crlf(line) ==
    LET n0 == Len(line)
        n1 == IF n0 > 0 /\ line[n0] = LF THEN n0 - 1 ELSE n0
        n2 == IF n1 > 0 /\ line[n1] = CR THEN n1 - 1 ELSE n1
    IN SubSeq(line, 1, n2)

\* `buf_size.max(4096)`
MinBufSize == 4096
ClampBufSize(buf_size) == IF buf_size > MinBufSize THEN buf_size ELSE MinBufSize

\* the signatures xopen looks for
GzipMagic == <<31, 139>>
XzMagic == <<253, 55, 122, 88, 90, 0>>
Bzip2Magic == <<66, 90, 104>>
ZstdMagic == <<40, 181, 47, 253>>

\* `buf.starts_with(magic)`
starts_with(buf, magic) ==
    Len(buf) >= Len(magic) /\ SubSeq(buf, 1, Len(magic)) = magic

\* a read that hands out the bytes and moves past them
fill_and_consume(r, cap) ==
    LET n == IF Len(r.unread) < cap THEN Len(r.unread) ELSE cap
    IN [buf |-> SubSeq(r.unread, 1, n),
        r |-> [unread |-> SubSeq(r.unread, n + 1, Len(r.unread))]]

\* `r.fill_buf()` on a BufReader of capacity cap over a file: the first bytes
\* of the file, at most cap of them, none of them consumed
fill_buf(r, cap) ==
    LET n == IF Len(r.unread) < cap THEN Len(r.unread) ELSE cap
    IN [buf |-> SubSeq(r.unread, 1, n), r |-> r]

\* xopen, from the bytes of the opened file: the adapter the reader is
\* wrapped in ("none": returned as it is) and the reader handed to it
xopen(bytes, buf_size) ==
    Bind(fill_buf([unread |-> bytes], ClampBufSize(buf_size)), LAMBDA p :
        [op |-> "xopen",
         adapter |->
            IF Len(p.buf) >= 2 /\ p.buf[1] = 31 /\ p.buf[2] = 139 THEN "gzip"
            ELSE IF starts_with(p.buf, XzMagic) THEN "xz"
            ELSE IF starts_with(p.buf, Bzip2Magic) THEN "bzip2"
            ELSE IF starts_with(p.buf, ZstdMagic) THEN "zstd"
            ELSE "none",
         inner |-> p.r])

\* ------------------------------------------------------------------------
\* BufRead::read_until(b'\n', buf) on the cursor: the bytes up to and
\* including the first LF, or all the remaining bytes when there is no LF.
\* A result of length 0 is Ok(0), the end of the stream.
\* ------------------------------------------------------------------------
read_until_drop_partial(rd) ==
    IF \E i \in 1..Len(rd) : rd[i] = LF
    THEN LET k == CHOOSE i \in 1..Len(rd) :
                     rd[i] = LF /\ \A j \in 1..(i - 1) : rd[j] # LF
         IN [line |-> SubSeq(rd, 1, k), rest |-> SubSeq(rd, k + 1, Len(rd))]
    ELSE [line |-> <<>>, rest |-> <<>>]

read_until(rd) ==
    IF \E i \in 1..Len(rd) : rd[i] = LF
    THEN LET k == CHOOSE i \in 1..Len(rd) :
                     rd[i] = LF /\ \A j \in 1..(i - 1) : rd[j] # LF
         IN [line |-> SubSeq(rd, 1, k), rest |-> SubSeq(rd, k + 1, Len(rd))]
    ELSE [line |-> rd, rest |-> <<>>]

\* ------------------------------------------------------------------------
\* lib.rs: parse_header
\* ------------------------------------------------------------------------
IsBlankByte(b) == b = SP \/ b = TAB

RECURSIVE SkipId(_, _)
SkipId(line, i) ==
    IF i < Len(line) /\ ~IsBlankByte(line[i + 1]) THEN SkipId(line, i + 1) ELSE i

\* skips one space or tab only
SkipOneBlank(line, i) ==
    IF i < Len(line) /\ IsBlankByte(line[i + 1]) THEN i + 1 ELSE i

RECURSIVE SkipBlanks(_, _)
SkipBlanks(line, i) ==
    IF i < Len(line) /\ IsBlankByte(line[i + 1]) THEN SkipBlanks(line, i + 1) ELSE i

parse_header(line) ==
    LET i == SkipId(line, 0)
        j == SkipBlanks(line, i)
    IN [id |-> SubSeq(line, 1, i), desc |-> SubSeq(line, j + 1, Len(line))]

\* ------------------------------------------------------------------------
\* lib.rs: Reader::next, the pieces
\* A reader value `self` is [reader, record_buf, line_buf, lookahead_line].
\* ------------------------------------------------------------------------

\* the `Ok(_) if self.line_buf[0] == b'\n' => continue` arm of the three loops
IsEmptyOrSpaceLine(line) == line[1] = LF \/ line[1] = SP

IsEmptyLine(line) == line[1] = LF

\* Step 1, the loop that reads the stream for a header line
ReadHeaderEofOnBlank(self) ==
    Bind(read_until(self.reader), LAMBDA r :
    Bind([self EXCEPT !.reader = r.rest, !.line_buf = r.line], LAMBDA s :
        IF Len(r.line) = 0 THEN [eof |-> TRUE, self |-> s]
        ELSE IF IsEmptyLine(r.line) THEN [eof |-> TRUE, self |-> s]
        ELSE [eof |-> FALSE, self |-> s]))

RECURSIVE ReadHeader(_)
ReadHeader(self) ==
    Bind(read_until(self.reader), LAMBDA r :
    Bind([self EXCEPT !.reader = r.rest, !.line_buf = r.line], LAMBDA s :
        IF Len(r.line) = 0 THEN [eof |-> TRUE, self |-> s]
        ELSE IF IsEmptyLine(r.line) THEN ReadHeader(s)
        ELSE [eof |-> FALSE, self |-> s]))

\* uses the pending line and leaves it pending
LoadHeaderKeep(self) ==
    IF self.lookahead_line.some
    THEN [eof |-> FALSE,
          self |-> [self EXCEPT !.line_buf = self.lookahead_line.val]]
    ELSE ReadHeader(self)

\* Step 1: the pending lookahead line is swapped into line_buf, or the
\* stream is read
LoadHeader(self) ==
    IF self.lookahead_line.some
    THEN [eof |-> FALSE,
          self |-> [self EXCEPT !.line_buf = self.lookahead_line.val,
                                !.lookahead_line = None]]
    ELSE ReadHeader(self)

\* `let is_fastq = match self.line_buf[0]`
Sigil(b) ==
    IF b = GT THEN "fasta"
    ELSE IF b = AT THEN "fastq"
    ELSE "invalid"

\* `self.lookahead_line = Some(std::mem::take(&mut self.line_buf))`
RetainDropped(line) == None

Retain(line) == Some(line)

\* stops on a `+` line in either format
StopsOnPlusAnyFormat(is_fastq, first) == first = PLUS

\* `if is_fastq && first == b'+'`
StopsOnPlus(is_fastq, first) == is_fastq /\ first = PLUS

\* Step 2: the sequence loop
RECURSIVE ReadSequence(_, _)
ReadSequence(self, is_fastq) ==
    Bind(read_until(self.reader), LAMBDA r :
    Bind([self EXCEPT !.reader = r.rest, !.line_buf = r.line], LAMBDA s :
        IF Len(r.line) = 0 THEN s
        ELSE IF IsEmptyLine(r.line) THEN ReadSequence(s, is_fastq)
        ELSE IF r.line[1] = GT
             THEN [s EXCEPT !.lookahead_line = Retain(r.line), !.line_buf = <<>>]
        ELSE IF StopsOnPlus(is_fastq, r.line[1]) THEN s
        ELSE Bind([s EXCEPT !.record_buf = @ \o trim_crlf(r.line)], LAMBDA t :
                  ReadSequence(t, is_fastq))))

\* `while qual_read_len < seq_len`
QualWantedInclusive(qual_read_len, seq_len) == qual_read_len <= seq_len

QualWanted(qual_read_len, seq_len) == qual_read_len < seq_len

\* Step 3: the quality loop
RECURSIVE ReadQuality(_, _, _)
ReadQuality(self, seq_len, qual_read_len) ==
    IF ~QualWanted(qual_read_len, seq_len) THEN self
    ELSE
    Bind(read_until(self.reader), LAMBDA r :
    Bind([self EXCEPT !.reader = r.rest, !.line_buf = r.line], LAMBDA s :
        IF Len(r.line) = 0 THEN s
        ELSE IF IsEmptyLine(r.line) THEN ReadQuality(s, seq_len, qual_read_len)
        ELSE Bind(trim_crlf(r.line), LAMBDA clean_qual :
             Bind([s EXCEPT !.record_buf = @ \o clean_qual], LAMBDA t :
             Bind(qual_read_len + Len(clean_qual), LAMBDA n :
                  ReadQuality(t, seq_len, n))))))

\* `if self.record_buf.len() - seq_end > seq_len`
Overshoot(q_len, seq_len) == q_len > seq_len

\* `if q_len != seq_slice.len()`
MismatchOnlyLonger(q_len, seq_len) == q_len > seq_len

Mismatch(q_len, seq_len) == q_len # seq_len

\* what a call returns
RetNone == [kind |-> "None", id |-> <<>>, desc |-> <<>>, seq |-> <<>>,
            qual |-> None, e |-> 0, a |-> 0]
RetInvalidFormat == [RetNone EXCEPT !.kind = "InvalidFormat"]
RetUnequal(e, a) == [RetNone EXCEPT !.kind = "UnequalSeqAndQual", !.e = e, !.a = a]
RetOk(id, desc, seq, qual) ==
    [RetNone EXCEPT !.kind = "Ok", !.id = id, !.desc = desc, !.seq = seq, !.qual = qual]

\* the error of the overshoot check after the quality loop:
\* `UnequalSeqAndQual(seq_len, self.record_buf.len() - seq_end)`
OvershootReport(seq_len, buf_len, seq_end) == RetUnequal(seq_len, buf_len - seq_end)

\* the error of the final boundary check:
\* `UnequalSeqAndQual(seq_slice.len(), q_len)`
FinalReportSwapped(seq_slice, q_len) == RetUnequal(q_len, Len(seq_slice))

FinalReport(seq_slice, q_len) == RetUnequal(Len(seq_slice), q_len)

\* What a call went through, kept beside the value it returns: the format,
\* the bytes left unread after the header and after the sequence loop, the
\* two boundaries in record_buf, and what each length check would report.
NoMarks(rest) ==
    [parsed |-> FALSE, fq |-> FALSE, rest_head |-> rest, rest_seq |-> rest,
     header_end |-> 0, seq_end |-> 0, over |-> RetNone, final |-> RetNone]

\* Steps 2 and 3 and the return, for the header line in s1.line_buf
ParseRecord(s1, is_fastq) ==
    Bind([s1 EXCEPT !.record_buf = @ \o Tail(trim_crlf(s1.line_buf))], LAMBDA s2 :
    Bind(ReadSequence(s2, is_fastq), LAMBDA s3 :
    Bind(IF is_fastq
         THEN ReadQuality(s3, Len(s3.record_buf) - Len(s2.record_buf), 0)
         ELSE s3, LAMBDA s4 :
        LET header_end == Len(s2.record_buf)
            seq_end == Len(s3.record_buf)
            seq_len == seq_end - header_end
            buf == s4.record_buf
            q_len == Len(buf) - seq_end
            id_slice == SubSeq(buf, 1, header_end)
            seq_slice == SubSeq(buf, header_end + 1, seq_end)
            marks == [parsed |-> TRUE, fq |-> is_fastq,
                      rest_head |-> Len(s1.reader), rest_seq |-> Len(s3.reader),
                      header_end |-> header_end, seq_end |-> seq_end,
                      over |-> OvershootReport(seq_len, Len(buf), seq_end),
                      final |-> FinalReport(seq_slice, q_len)]
        IN IF is_fastq /\ Overshoot(q_len, seq_len)
           THEN [self |-> s4, marks |-> marks,
                 ret |-> OvershootReport(seq_len, Len(buf), seq_end)]
           ELSE IF is_fastq /\ Mismatch(q_len, Len(seq_slice))
           THEN [self |-> s4, marks |-> marks, ret |-> FinalReport(seq_slice, q_len)]
           ELSE [self |-> s4, marks |-> marks,
                 ret |-> RetOk(parse_header(id_slice).id, parse_header(id_slice).desc,
                               seq_slice,
                               IF is_fastq THEN Some(SubSeq(buf, seq_end + 1, Len(buf)))
                               ELSE None)])))

\* `self.record_buf.clear()`
NotCleared(buf) == buf

Cleared(buf) == <<>>

\* Reader::next: the reader after the call and the value returned
next(self) ==
    Bind(LoadHeader([self EXCEPT !.record_buf = Cleared(@)]), LAMBDA h :
        IF h.eof
        THEN [self |-> h.self, marks |-> NoMarks(Len(h.self.reader)), ret |-> RetNone]
        ELSE Bind(Sigil(h.self.line_buf[1]), LAMBDA fmt :
             IF fmt = "invalid"
             THEN [self |-> h.self, marks |-> NoMarks(Len(h.self.reader)),
                   ret |-> RetInvalidFormat]
             ELSE ParseRecord(h.self, fmt = "fastq")))

\* ------------------------------------------------------------------------
\* State
\* ------------------------------------------------------------------------
VARIABLES
    written,         \* the physical lines the stream was written from
    reader,          \* Reader.reader: the bytes not read yet
    record_buf,      \* Reader.record_buf
    line_buf,        \* Reader.line_buf
    lookahead_line,  \* Reader.lookahead_line
    outcomes,        \* what the calls of next() returned, in call order
    arg,             \* the bytes xopen or a Seq method is applied to
    result           \* what xopen or the Seq method returned

vars == <<written, reader, record_buf, line_buf, lookahead_line, outcomes,
          arg, result>>

\* no function has been applied
NoResult == [op |-> "none"]

\* ------------------------------------------------------------------------
\* The input: physical lines.  A line is [kind, body, term, id, desc]: its
\* role in the file, its content, its terminator, and for a header the
\* identifier and description it was written from.
\* ------------------------------------------------------------------------
TermBytes(t) ==
    IF t = "LF" THEN <<LF>> ELSE IF t = "CRLF" THEN <<CR, LF>> ELSE <<>>

Line(kind, body, term) ==
    [kind |-> kind, body |-> body, term |-> term, id |-> <<>>, desc |-> <<>>]

RECURSIVE Flatten(_)
Flatten(lines) ==
    IF lines = <<>> THEN <<>>
    ELSE Head(lines).body \o TermBytes(Head(lines).term) \o Flatten(Tail(lines))

\* the last line of a file may lack its terminator
Unterminate(lines) ==
    [lines EXCEPT ![Len(lines)] = [@ EXCEPT !.term = "NONE"]]

OpenEnd(lines, open) ==
    IF open /\ lines # <<>> /\ lines[Len(lines)].body # <<>>
    THEN Unterminate(lines) ELSE lines

\* --- any lines ---
RawLines ==
    {Line("raw", b, "LF") : b \in {<<>>, <<GT, 97>>, <<AT, 97>>, <<PLUS>>, <<65>>, <<SP>>}}
    \cup {Line("raw", b, "CRLF") : b \in {<<>>, <<GT, 97>>, <<65>>}}

\* --- records ---
\* A record is written from [fq, head, seqs, plus, quals, style, cut]:
\* head = [id, ws, desc], seqs and quals are lists of line contents, style
\* chooses the terminator of each of its lines, cut says where the record
\* stops ("full": nowhere).
TermOf(style, i) ==
    IF style = "lf" THEN "LF"
    ELSE IF style = "crlf" THEN "CRLF"
    ELSE IF i % 2 = 1 THEN "LF" ELSE "CRLF"

RecLines(rec) ==
    LET hl == <<[kind |-> "header",
                 body |-> <<IF rec.fq THEN AT ELSE GT>> \o rec.head.id
                          \o rec.head.ws \o rec.head.desc,
                 term |-> "LF", id |-> rec.head.id, desc |-> rec.head.desc]>>
        sl == IF rec.cut = "head" THEN <<>>
              ELSE [i \in 1..Len(rec.seqs) |-> Line("seq", rec.seqs[i], "LF")]
        pl == IF rec.fq /\ rec.cut \in {"plus", "qual", "full"}
              THEN <<Line("plus", rec.plus, "LF")>> ELSE <<>>
        ql == IF rec.fq /\ rec.cut \in {"qual", "full"}
              THEN [i \in 1..Len(rec.quals) |-> Line("qual", rec.quals[i], "LF")]
              ELSE <<>>
        all == hl \o sl \o pl \o ql
    IN [i \in 1..Len(all) |-> [all[i] EXCEPT !.term = TermOf(rec.style, i)]]

RECURSIVE StreamLines(_)
StreamLines(recs) ==
    IF recs = <<>> THEN <<>> ELSE RecLines(Head(recs)) \o StreamLines(Tail(recs))

Styles == {"lf", "crlf", "mix"}

NoHead == [id |-> <<>>, ws |-> <<>>, desc |-> <<>>]
HeadA == [id |-> <<97>>, ws |-> <<>>, desc |-> <<>>]
HeadB == [id |-> <<98>>, ws |-> <<SP, TAB>>, desc |-> <<100, SP, 101>>]

\* no-quality records: the sequence lines do not begin with `>`
FaSeqs == {<<>>, <<<<65, 67>>>>, <<<<65>>, <<AT, 67>>>>, <<<<PLUS>>, <<71, GT>>>>}
FaRecs == {[fq |-> FALSE, head |-> h, seqs |-> s, plus |-> <<>>, quals |-> <<>>,
            style |-> st, cut |-> "full"] :
           h \in {NoHead, HeadA, HeadB}, s \in FaSeqs, st \in Styles}

\* well-formed quality-bearing records: the quality lines sum to the length
\* of the sequence; quality lines may begin with `@`, `>` or `+`
FqBodies == {[seqs |-> <<>>, quals |-> <<>>],
             [seqs |-> <<<<65, 67>>>>, quals |-> <<<<73, 73>>>>],
             [seqs |-> <<<<65>>, <<67>>>>, quals |-> <<<<73>>, <<74>>>>],
             [seqs |-> <<<<65, 67>>>>, quals |-> <<<<AT, 73>>>>],
             [seqs |-> <<<<65, 67>>, <<71>>>>, quals |-> <<<<GT>>, <<PLUS, 73>>>>]}
FqRecsOf(bodies, heads, styles, cuts) ==
    {[fq |-> TRUE, head |-> h, seqs |-> b.seqs, plus |-> <<PLUS>> \o h.id,
      quals |-> b.quals, style |-> st, cut |-> c] :
     h \in heads, b \in bodies, st \in styles, c \in cuts}
FqRecs == FqRecsOf(FqBodies, {HeadA, HeadB}, Styles, {"full"})

\* quality-bearing records whose quality lines sum to fewer or to more bytes
\* than the sequence: deficit (a short last line, no quality line at all),
\* excess (on the last line, on a line of its own)
BadBodies == {[seqs |-> <<<<65, 67>>>>, quals |-> <<<<73>>>>],
              [seqs |-> <<<<65, 67>>>>, quals |-> <<>>],
              [seqs |-> <<<<65, 67>>>>, quals |-> <<<<73, 73, 73>>>>],
              [seqs |-> <<<<65, 67>>>>, quals |-> <<<<73, 73>>, <<73>>>>],
              [seqs |-> <<<<65>>, <<67>>, <<71>>>>, quals |-> <<<<73>>, <<74>>>>]}
MixRecs == FqRecsOf(BadBodies, {HeadA}, {"lf", "crlf"}, {"full"})
           \cup FqRecsOf({b \in FqBodies : Len(b.seqs) = 1}, {HeadB}, {"lf", "crlf"}, {"full"})
\* streams that end in the middle of their last record
CutBodies == {[seqs |-> <<<<65, 67>>>>, quals |-> <<<<73>>>>],
              [seqs |-> <<<<65>>, <<67>>>>, quals |-> <<<<73>>>>],
              [seqs |-> <<>>, quals |-> <<>>]}
CutRecs == FqRecsOf(CutBodies, {HeadA, HeadB}, Styles, {"head", "seq", "plus", "qual"})
IsCut(rec) ==
    \/ ~rec.fq
    \/ rec.cut = "head"
    \/ rec.cut = "seq" /\ rec.seqs # <<>>
    \/ rec.cut = "plus" /\ rec.seqs # <<>>
    \/ rec.cut = "qual" /\ rec.seqs # <<>>
\* well-formed streams with terminator-only lines (bare LF or bare CRLF)
\* inserted before a header, a sequence line or a quality line
InsertBlank(lines, p, t, n) ==
    SubSeq(lines, 1, p - 1) \o [i \in 1..n |-> Line("blank", <<>>, t)]
    \o SubSeq(lines, p, Len(lines))
BaseRecs == {r \in FaRecs : r.style = "mix" /\ r.head # NoHead}
            \cup {r \in FqRecs : r.style = "mix" /\ r.head = HeadA}
BlankSites(lines) == {q \in 1..Len(lines) : lines[q].kind \in {"header", "seq", "qual"}}

\* the records a list of lines was written from: a header line opens a
\* record, sequence and quality lines add to the last one opened
RECURSIVE Records(_, _)
Records(lines, acc) ==
    IF lines = <<>> THEN acc
    ELSE LET l == Head(lines)
             n == Len(acc)
         IN Records(Tail(lines),
              IF l.kind = "header"
              THEN Append(acc, [fq |-> l.body[1] = AT, id |-> l.id, desc |-> l.desc,
                                seq |-> <<>>, qual |-> <<>>])
              ELSE IF l.kind = "seq" THEN [acc EXCEPT ![n].seq = @ \o l.body]
              ELSE IF l.kind = "qual" THEN [acc EXCEPT ![n].qual = @ \o l.body]
              ELSE acc)

Written == Records(written, <<>>)

\* --- one record under every header text ---
\* the header texts: every byte string of at most MaxHead bytes over two
\* letters, the space and the tab
HeadBytes == {97, 100, SP, TAB}
HeaderLine(sigil, h, t) == Line("header", <<sigil>> \o h, t)

\* --- one record wrapped over several lines ---
\* the sequence is written over n lines, each with a content and a terminator
\* of its own; a quality-bearing record has as many quality lines, with the
\* same lengths and the other terminator
WrapBodies == {<<>>, <<65>>, <<67, 71>>}
OtherTerm(t) == IF t = "LF" THEN "CRLF" ELSE "LF"
QualOf(body) == [i \in 1..Len(body) |-> 73]
WrapLines(fq, ht, bodies, terms) ==
    LET n == Len(bodies)
        hl == <<[kind |-> "header", body |-> <<IF fq THEN AT ELSE GT, 97>>,
                 term |-> ht, id |-> <<97>>, desc |-> <<>>]>>
        sl == [i \in 1..n |-> Line("seq", bodies[i], terms[i])]
        pl == <<Line("plus", <<PLUS>>, ht)>>
        ql == [i \in 1..n |-> Line("qual", QualOf(bodies[i]), OtherTerm(terms[i]))]
    IN IF fq THEN hl \o sl \o pl \o ql ELSE hl \o sl

\* --- files given to xopen ---
\* a signature or the first bytes of one, followed by a few other bytes
Magics == {GzipMagic, XzMagic, Bzip2Magic, ZstdMagic}
TailBytes == {GT, 31, 139}
BufSizes == {1, MinBufSize, 2 * MinBufSize}

\* --- sequences given to the Seq methods ---
\* the bytes the table names, in both cases, the gap bytes, and bytes it
\* does not name
SeqBytes ==
    {65, 67, 71, 84, 78, 97, 99, 103, 116, 110}
    \cup {77, 82, 87, 83, 89, 75, 86, 72, 68, 66}
    \cup {109, 114, 119, 115, 121, 107, 118, 104, 100, 98}
    \cup {46, 45, 32}
    \cup {0, 62, 85, 88, 255}

\* the results of the methods applied so far to one Seq
NoSeqResult == [op |-> "seq", rc |-> None, rc_unsafe |-> None, gc_content |-> None]
SeqResult(r) == IF r = NoResult THEN NoSeqResult ELSE r

\* ------------------------------------------------------------------------
\* Reader::from_reader and the action
\* ------------------------------------------------------------------------
from_reader(lines) ==
    /\ written = lines
    /\ reader = Flatten(lines)
    /\ record_buf = <<>>
    /\ line_buf = <<>>
    /\ lookahead_line = None
    /\ outcomes = <<>>
    /\ arg = <<>>
    /\ result = NoResult

Init ==
    \E k \in 0..MaxLines : \E ls \in [1..k -> RawLines] : \E open \in BOOLEAN :
        from_reader(OpenEnd(ls, open))

InitFasta ==
    \E k \in 0..MaxRecs : \E rs \in [1..k -> FaRecs] : \E open \in BOOLEAN :
        from_reader(OpenEnd(StreamLines(rs), open))

InitFastq ==
    \E k \in 0..MaxRecs : \E rs \in [1..k -> FqRecs] : \E open \in BOOLEAN :
        from_reader(OpenEnd(StreamLines(rs), open))

InitMismatch ==
    \E k \in 1..MaxRecs : \E rs \in [1..k -> MixRecs] : \E open \in BOOLEAN :
        from_reader(OpenEnd(StreamLines(rs), open))

InitCut ==
    \E k \in 0..(MaxRecs - 1) : \E open \in BOOLEAN :
        \/ \E rs \in [1..k -> FaRecs] : \E c \in FaRecs :
               from_reader(OpenEnd(StreamLines(Append(rs, c)), open))
        \/ \E rs \in [1..k -> FqRecs] : \E c \in {r \in CutRecs : IsCut(r)} :
               from_reader(OpenEnd(StreamLines(Append(rs, c)), open))

InitBlank ==
    \E k \in 1..MaxRecs : \E rs \in [1..k -> BaseRecs] : \E open \in BOOLEAN :
        /\ \A i \in 1..k : rs[i].fq = rs[1].fq
        /\ \E p \in BlankSites(StreamLines(rs)) : \E t \in {"LF", "CRLF"} :
           \E n \in 1..MaxBlank :
               from_reader(InsertBlank(OpenEnd(StreamLines(rs), open), p, t, n))

InitHeader ==
    \E n \in 0..MaxHead : \E h \in [1..n -> HeadBytes] :
    \E sigil \in {GT, AT} : \E t \in {"LF", "CRLF", "NONE"} :
        from_reader(<<HeaderLine(sigil, h, t)>>)

InitWrap ==
    \E n \in 1..MaxWrap : \E bodies \in [1..n -> WrapBodies] :
    \E terms \in [1..n -> {"LF", "CRLF"}] :
    \E fq \in BOOLEAN : \E ht \in {"LF", "CRLF"} : \E open \in BOOLEAN :
        from_reader(OpenEnd(WrapLines(fq, ht, bodies, terms), open))

InitOpen ==
    \E sig \in Magics : \E n \in 0..Len(sig) :
    \E k \in 0..MaxTail : \E tail \in [1..k -> TailBytes] :
        /\ written = <<>>
        /\ reader = <<>>
        /\ record_buf = <<>>
        /\ line_buf = <<>>
        /\ lookahead_line = None
        /\ outcomes = <<>>
        /\ arg = SubSeq(sig, 1, n) \o tail
        /\ result = NoResult

\* xopen on the file
Xopen ==
    /\ result = NoResult
    /\ \E buf_size \in BufSizes : result' = xopen(arg, buf_size)
    /\ UNCHANGED <<written, reader, record_buf, line_buf, lookahead_line, outcomes, arg>>

InitSeq ==
    \E n \in 0..MaxSeqLen : \E s \in [1..n -> SeqBytes] :
        /\ written = <<>>
        /\ reader = <<>>
        /\ record_buf = <<>>
        /\ line_buf = <<>>
        /\ lookahead_line = None
        /\ outcomes = <<>>
        /\ arg = s
        /\ result = NoResult

\* the three methods, each applied once to the Seq whose sequence is arg
Rc ==
    /\ ~SeqResult(result).rc.some
    /\ result' = [SeqResult(result) EXCEPT !.rc = Some(rc(arg))]
    /\ UNCHANGED <<written, reader, record_buf, line_buf, lookahead_line, outcomes, arg>>

RcUnsafe ==
    /\ ~SeqResult(result).rc_unsafe.some
    /\ result' = [SeqResult(result) EXCEPT !.rc_unsafe = Some(rc_unsafe(arg))]
    /\ UNCHANGED <<written, reader, record_buf, line_buf, lookahead_line, outcomes, arg>>

GcContent ==
    /\ ~SeqResult(result).gc_content.some
    /\ result' = [SeqResult(result) EXCEPT !.gc_content = Some(gc_content(arg))]
    /\ UNCHANGED <<written, reader, record_buf, line_buf, lookahead_line, outcomes, arg>>

NextSeq == Rc \/ RcUnsafe \/ GcContent

\* quality-bearing records, well-formed, too short, too long or cut by
\* the end of the stream
InitQual == InitFastq \/ InitMismatch

\* --- the call ---
\* one call of next(); the outcome is recorded with the number of bytes
\* read before the call and whether a lookahead line was pending
NextCall ==
    /\ Len(outcomes) < MaxCalls
    /\ \E r \in {next([reader |-> reader, record_buf |-> record_buf,
                          line_buf |-> line_buf, lookahead_line |-> lookahead_line])} :
       LET o == [kind |-> r.ret.kind, id |-> r.ret.id, desc |-> r.ret.desc,
                 seq |-> r.ret.seq, qual |-> r.ret.qual, e |-> r.ret.e, a |-> r.ret.a,
                 from |-> Len(Flatten(written)) - Len(reader),
                 la |-> lookahead_line.some,
                 to |-> Len(Flatten(written)) - Len(r.self.reader),
                 la_after |-> r.self.lookahead_line,
                 marks |-> r.marks]
       IN /\ reader' = r.self.reader
          /\ record_buf' = r.self.record_buf
          /\ line_buf' = r.self.line_buf
          /\ lookahead_line' = r.self.lookahead_line
          /\ outcomes' = Append(outcomes, o)
    /\ UNCHANGED <<written, arg, result>>

Next == NextCall

Spec == Init /\ [][Next]_vars
SpecFasta == InitFasta /\ [][Next]_vars
SpecFastq == InitFastq /\ [][Next]_vars
SpecMismatch == InitMismatch /\ [][Next]_vars
SpecCut == InitCut /\ [][Next]_vars
SpecBlank == InitBlank /\ [][Next]_vars

SpecHeader == InitHeader /\ [][Next]_vars

SpecWrap == InitWrap /\ [][Next]_vars

SpecOpen == InitOpen /\ [][Xopen]_vars

SpecSeq == InitSeq /\ [][NextSeq]_vars

SpecQual == InitQual /\ [][Next]_vars

\* ------------------------------------------------------------------------
\* Properties
\* ------------------------------------------------------------------------
Calls == 1..Len(outcomes)
Stream == Flatten(written)

\* outcome o is the record e, with every field equal
Matches(o, e) ==
    /\ o.kind = "Ok"
    /\ o.id = e.id
    /\ o.desc = e.desc
    /\ o.seq = e.seq
    /\ o.qual = IF e.fq THEN Some(e.qual) ELSE None

IsError(o) == o.kind \in {"InvalidFormat", "UnequalSeqAndQual"}

\* the first physical line of a byte string, terminator included
FirstLine(bytes) ==
    IF \E i \in 1..Len(bytes) : bytes[i] = LF
    THEN SubSeq(bytes, 1, CHOOSE i \in 1..Len(bytes) :
                              bytes[i] = LF /\ \A j \in 1..(i - 1) : bytes[j] # LF)
    ELSE bytes

TerminatorOnly(l) == l = <<LF>> \/ l = <<CR, LF>>

\* the first line that is not terminator-only, <<>> when there is none
RECURSIVE FirstRealLine(_)
FirstRealLine(bytes) ==
    IF bytes = <<>> THEN <<>>
    ELSE LET l == FirstLine(bytes)
         IN IF TerminatorOnly(l)
            THEN FirstRealLine(SubSeq(bytes, Len(l) + 1, Len(bytes)))
            ELSE l

\* the bytes that were unread when call k began
Unread(k) == SubSeq(Stream, outcomes[k].from + 1, Len(Stream))

\* C1: every record returned with a quality field has a quality exactly as
\* long as its sequence
C1_QualLenEqualsSeqLen ==
    \A k \in Calls :
        (outcomes[k].kind = "Ok" /\ outcomes[k].qual.some)
            => Len(outcomes[k].qual.val) = Len(outcomes[k].seq)

C1_Witness ==
    \E k \in Calls :
        /\ outcomes[k].kind = "Ok"
        /\ outcomes[k].qual.some
        /\ Len(outcomes[k].seq) >= 1
        /\ Len(outcomes[k].qual.val) = Len(outcomes[k].seq)

\* C2: the call that parses a quality-bearing record whose quality lines sum
\* to more or to fewer bytes than its sequence returns UnequalSeqAndQual with
\* the sequence length and the quality length, whatever the wrapping and
\* whatever follows the record (stated for the first such record of a stream)
C2_MismatchAlwaysReported ==
    \A k \in Calls :
        (/\ k <= Len(Written)
         /\ Len(Written[k].seq) # Len(Written[k].qual)
         /\ \A j \in 1..(k - 1) : Len(Written[j].seq) = Len(Written[j].qual))
        => /\ outcomes[k].kind = "UnequalSeqAndQual"
           /\ outcomes[k].e = Len(Written[k].seq)
           /\ outcomes[k].a = Len(Written[k].qual)

\* C3: on a stream of n no-quality records, call k <= n returns record k
\* (its own id, description and sequence lines, no quality) and every later
\* call returns end-of-stream
C3_FastaRecordsInOrder ==
    \A k \in Calls :
        IF k <= Len(Written)
        THEN /\ outcomes[k].kind = "Ok"
             /\ outcomes[k].id = Written[k].id
             /\ outcomes[k].desc = Written[k].desc
             /\ outcomes[k].seq = Written[k].seq
             /\ ~outcomes[k].qual.some
        ELSE outcomes[k].kind = "None"

C3_Witness ==
    /\ Len(Written) = 2
    /\ Len(outcomes) = 3
    /\ outcomes[1].kind = "Ok" /\ Len(outcomes[1].seq) = 3
    /\ outcomes[2].kind = "Ok" /\ outcomes[2].id # <<>> /\ outcomes[2].seq # <<>>
    /\ outcomes[2].la
    /\ outcomes[3].kind = "None"

\* C4: on a stream of n well-formed quality-bearing records, call k <= n
\* returns record k with sequence and quality the concatenation of its own
\* lines (a quality line beginning with `@`, `>` or `+` included) and every
\* later call returns end-of-stream
C4_FastqRecordsInOrder ==
    \A k \in Calls :
        IF k <= Len(Written)
        THEN /\ Written[k].fq
             /\ Matches(outcomes[k], Written[k])
             /\ outcomes[k].qual.val = Written[k].qual
        ELSE outcomes[k].kind = "None"

C4_Witness ==
    /\ Len(Written) = 2
    /\ Len(outcomes) = 3
    /\ outcomes[1].kind = "Ok" /\ outcomes[1].qual = Some(<<GT, PLUS, 73>>)
    /\ outcomes[2].kind = "Ok" /\ outcomes[2].qual = Some(<<AT, 73>>)
    /\ outcomes[3].kind = "None"

\* C5: terminator-only lines (bare LF or bare CRLF) before a header, a
\* sequence line or a quality line change nothing: the calls return the
\* records the stream was written from, then end-of-stream
C5_BlankLinesTransparent ==
    \A k \in Calls :
        \/ k <= Len(Written) /\ Matches(outcomes[k], Written[k])
        \/ k > Len(Written) /\ outcomes[k].kind = "None"

\* C6: on a stream of terminator-only lines only (or an empty one) the first
\* call returns end-of-stream
C6_OnlyTerminatorsIsEnd ==
    (Len(outcomes) >= 1 /\ \A i \in 1..Len(written) : written[i].body = <<>>)
        => outcomes[1].kind = "None"

\* C7 as claimed: the call that parses a record the stream ends in the middle
\* of returns that record, for either format
C7_CutRecordAlwaysReturned ==
    Len(outcomes) >= Len(Written)
        => Matches(outcomes[Len(Written)], Written[Len(Written)])

\* C7 as amended: a cut no-quality record is returned with the fields that
\* had no data left empty; a cut quality-bearing record is returned only when
\* the quality bytes present are as many as the sequence bytes present, and
\* otherwise the call returns UnequalSeqAndQual with the two lengths
C7_CutRecordReturnedOrUnequal ==
    Len(outcomes) >= Len(Written)
        => LET o == outcomes[Len(Written)]
               w == Written[Len(Written)]
           IN IF ~w.fq \/ Len(w.seq) = Len(w.qual)
              THEN Matches(o, w)
              ELSE /\ o.kind = "UnequalSeqAndQual"
                   /\ o.e = Len(w.seq)
                   /\ o.a = Len(w.qual)

C7_Witness ==
    /\ Len(Written) >= 2
    /\ Len(outcomes) >= Len(Written)
    /\ written[Len(written)].term = "NONE"
    /\ written[Len(written)].kind = "seq"
    /\ ~Written[Len(Written)].fq
    /\ outcomes[Len(Written)].kind = "Ok"
    /\ outcomes[Len(Written)].seq # <<>>

\* C8: once a call has returned end-of-stream, every later call returns
\* end-of-stream
C8_ExhaustionMonotonic ==
    \A i \in Calls : \A j \in Calls :
        (i < j /\ outcomes[i].kind = "None") => outcomes[j].kind = "None"

C8_Witness ==
    \E i \in Calls :
        /\ i + 2 \in Calls
        /\ outcomes[i].kind = "Ok"
        /\ outcomes[i + 1].kind = "None"
        /\ outcomes[i + 2].kind = "None"

\* C9: a call that seeks a header in the stream (no lookahead pending) and
\* whose first line that is not terminator-only begins with a byte other than
\* `>` or `@` returns InvalidFormat
C9_BadSigilIsInvalidFormat ==
    \A k \in Calls :
        LET l == FirstRealLine(Unread(k))
        IN (~outcomes[k].la /\ l # <<>> /\ l[1] \notin {GT, AT})
               => outcomes[k].kind = "InvalidFormat"

C9_Witness ==
    \E k \in Calls :
        /\ ~outcomes[k].la
        /\ Unread(k) # <<>> /\ Unread(k)[1] = LF
        /\ FirstRealLine(Unread(k)) \in {<<SP>>, <<SP, LF>>}
        /\ outcomes[k].kind = "InvalidFormat"

\* C10: after a call has returned InvalidFormat or UnequalSeqAndQual no later
\* call returns a record
C10_ErrorIsFatal ==
    \A i \in Calls : \A j \in Calls :
        (i < j /\ IsError(outcomes[i])) => outcomes[j].kind # "Ok"


\* the header text the first line of the file was written with: the line
\* without its sigil and without its terminator
HeaderText == Tail(written[1].body)

AllBlank(s) == \A i \in 1..Len(s) : IsBlankByte(s[i])
NoBlank(s) == \A i \in 1..Len(s) : ~IsBlankByte(s[i])

\* h is id, then a run of spaces and tabs, then desc; id is the longest
\* prefix of h without a space or a tab; desc does not begin with one
SplitsAs(h, id, desc) ==
    /\ Len(id) + Len(desc) <= Len(h)
    /\ id = SubSeq(h, 1, Len(id))
    /\ NoBlank(id)
    /\ Len(id) < Len(h) => IsBlankByte(h[Len(id) + 1])
    /\ desc = SubSeq(h, Len(h) - Len(desc) + 1, Len(h))
    /\ desc # <<>> => ~IsBlankByte(desc[1])
    /\ AllBlank(SubSeq(h, Len(id) + 1, Len(h) - Len(desc)))

\* C11: for every header text h, the identifier of the returned record is
\* the longest leading run of bytes of h that are neither space nor tab, the
\* description is what is left of h after the spaces and tabs that follow the
\* identifier, the description never begins with a space or a tab, and h is
\* the identifier, a run of spaces and tabs, and the description; either field
\* may be empty
C11_HeaderSplit ==
    outcomes # <<>> =>
        /\ outcomes[1].kind = "Ok"
        /\ SplitsAs(HeaderText, outcomes[1].id, outcomes[1].desc)

\* an identifier, two blanks of both kinds, and a description
C11_Witness ==
    /\ outcomes # <<>>
    /\ outcomes[1].kind = "Ok"
    /\ outcomes[1].id # <<>>
    /\ outcomes[1].desc # <<>>
    /\ Len(outcomes[1].id) + Len(outcomes[1].desc) + 2 = Len(HeaderText)
    /\ SP \in {HeaderText[i] : i \in 1..Len(HeaderText)}
    /\ TAB \in {HeaderText[i] : i \in 1..Len(HeaderText)}

\* the bytes of the lines of one role, as they stand in the file
RawOf(kind) == Flatten(SelectSeq(written, LAMBDA l : l.kind = kind))

\* a byte string without its CR and LF bytes
WithoutTerminators(bytes) == SelectSeq(bytes, LAMBDA b : b # CR /\ b # LF)

\* C12: for a record whose sequence is written over N >= 1 lines, each ended
\* by LF or by CRLF (the last one possibly by nothing), the sequence returned
\* is the bytes of these lines without the CR and LF bytes, whatever N and
\* whatever the terminator of each line; the header and the quality lines
\* lose their terminators the same way
C12_WrappedLinesJoined ==
    outcomes # <<>> =>
        /\ outcomes[1].kind = "Ok"
        /\ outcomes[1].seq = WithoutTerminators(RawOf("seq"))
        /\ outcomes[1].id = Tail(WithoutTerminators(RawOf("header")))
        /\ outcomes[1].qual.some => outcomes[1].qual.val = WithoutTerminators(RawOf("qual"))
        /\ outcomes[1].qual.some <=> written[1].body[1] = AT

\* a quality-bearing record over three lines, some ended by CRLF and some
\* by LF, the last one by nothing
C12_Witness ==
    /\ outcomes # <<>>
    /\ outcomes[1].kind = "Ok"
    /\ outcomes[1].qual.some
    /\ Len(outcomes[1].seq) >= 4
    /\ \E i \in 1..Len(written) : written[i].kind = "seq" /\ written[i].term = "CRLF"
    /\ \E i \in 1..Len(written) : written[i].kind = "seq" /\ written[i].term = "LF"
    /\ written[Len(written)].term = "NONE"
    /\ Len(SelectSeq(written, LAMBDA l : l.kind = "seq")) = 3

\* the adapter a signature calls for
AdapterOf(sig) ==
    IF sig = GzipMagic THEN "gzip"
    ELSE IF sig = XzMagic THEN "xz"
    ELSE IF sig = Bzip2Magic THEN "bzip2"
    ELSE "zstd"

BeginsWith(bytes, sig) ==
    Len(bytes) >= Len(sig) /\ \A i \in 1..Len(sig) : bytes[i] = sig[i]

\* C13: a file that begins with the gzip, xz, bzip2 or zstd signature is
\* wrapped in the matching adapter, a file that begins with none of them is
\* returned unwrapped, and the reader handed on still holds every byte of the
\* file
C13_SignatureChoosesAdapter ==
    result.op = "xopen" =>
        /\ \A sig \in Magics : BeginsWith(arg, sig) => result.adapter = AdapterOf(sig)
        /\ (\A sig \in Magics : ~BeginsWith(arg, sig)) => result.adapter = "none"
        /\ result.inner.unread = arg

\* a file that begins with the six bytes of the xz signature and goes on
C13_Witness ==
    /\ result.op = "xopen"
    /\ result.adapter = "xz"
    /\ BeginsWith(arg, XzMagic)
    /\ Len(arg) > Len(XzMagic)

\* how many bytes of s are in the set
CountIn(s, set) == Len(SelectSeq(s, LAMBDA b : b \in set))

\* C14: gc_content is 0 for the empty sequence; otherwise it is a count
\* divided by the length of the sequence, and the bytes counted are exactly
\* the G and C bases: every G and every C is counted and no byte that is not
\* a G or a C, in either case, is
C14_GcContentCountsGC ==
    (result.op = "seq" /\ result.gc_content.some) =>
        LET num == result.gc_content.val[1]
            den == result.gc_content.val[2]
        IN /\ arg = <<>> => num = 0
           /\ arg # <<>> => den = Len(arg)
           /\ CountIn(arg, {71, 67}) <= num
           /\ num <= CountIn(arg, {71, 67, 103, 99})

\* the complement of a base: A and T, C and G, M and K, R and Y, V and B,
\* H and D change places, W, S and N stay, in upper and in lower case; the gap
\* bytes stay; every other byte gives N
UpperComplement(b) ==
    CASE b = 65 -> 84 [] b = 84 -> 65 [] b = 67 -> 71 [] b = 71 -> 67
      [] b = 77 -> 75 [] b = 75 -> 77 [] b = 82 -> 89 [] b = 89 -> 82
      [] b = 86 -> 66 [] b = 66 -> 86 [] b = 72 -> 68 [] b = 68 -> 72
      [] b = 87 -> 87 [] b = 83 -> 83 [] b = 78 -> 78
      [] OTHER -> 0

Complement(b) ==
    IF b \in {46, 45, 32} THEN b
    ELSE IF UpperComplement(b) # 0 THEN UpperComplement(b)
    ELSE IF b >= 97 /\ UpperComplement(b - 32) # 0 THEN UpperComplement(b - 32) + 32
    ELSE 78

\* C15: rc returns a sequence of the same length whose byte i is the
\* complement of byte len-1-i of the input, and rc_unsafe returns what rc
\* returns
C15_RcIsReverseComplement ==
    result.op = "seq" =>
        /\ result.rc.some =>
              /\ Len(result.rc.val) = Len(arg)
              /\ \A i \in 1..Len(arg) :
                     result.rc.val[i] = Complement(arg[Len(arg) + 1 - i])
        /\ (result.rc.some /\ result.rc_unsafe.some) => result.rc_unsafe.val = result.rc.val

\* stream offsets of call outcome o: where its header line ends (where the
\* call began, when the header came from the lookahead slot) and where its
\* sequence loop stopped reading
HeadTo(s, o) == Len(s) - o.marks.rest_head
SeqTo(s, o) == Len(s) - o.marks.rest_seq

\* the physical line that ends at offset p of the stream, terminator included
LineStart(s, p) ==
    IF \E i \in 1..(p - 1) : s[i] = LF
    THEN 1 + CHOOSE i \in 1..(p - 1) :
                 s[i] = LF /\ \A j \in (i + 1)..(p - 1) : s[j] # LF
    ELSE 1
LineEndingAt(s, p) == SubSeq(s, LineStart(s, p), p)
EndsALine(s, p) == p = Len(s) \/ s[p] = LF

\* the sequence loop of the call read at least one line and the last line it
\* read begins with `>`
StoppedOnGt(s, o) ==
    /\ o.marks.parsed
    /\ SeqTo(s, o) > HeadTo(s, o)
    /\ LineEndingAt(s, SeqTo(s, o))[1] = GT

LastByteOf(s, k) ==
    LET o == outcomes[k]
    IN IF o.la_after.some /\ o.to = SeqTo(s, o) THEN LineStart(s, SeqTo(s, o)) - 1 ELSE o.to
FirstByteOf(s, k) ==
    IF outcomes[k].la THEN LineStart(s, SeqTo(s, outcomes[k - 1])) ELSE outcomes[k].from + 1

\* C17: every physical line is read exactly once (a call reads on from where
\* the call before it stopped), and the lines are attributed to the calls in
\* stream order: every line that contributes to the outcome of call k lies
\* before every line that contributes to the outcome of call k + 1, in both
\* formats, also when a line is kept as lookahead during a quality-bearing
\* parse
C17_LinesInStreamOrder ==
    \A s \in {Stream} :
        \A k \in Calls :
            /\ outcomes[k].from = (IF k = 1 THEN 0 ELSE outcomes[k - 1].to)
            /\ outcomes[k].from <= outcomes[k].to
            /\ k > 1 => LastByteOf(s, k - 1) < FirstByteOf(s, k)

\* the number of physical lines of the stream that end in the offsets
\* a+1..b: one for every LF, one more for an unterminated last line
LinesIn(s, a, b) ==
    Cardinality({i \in (a + 1)..b : s[i] = LF \/ i = Len(s)})

Returned(set) == Cardinality({k \in Calls : outcomes[k].kind \in set})

\* C18: a call can always be made and returns; a call that returns a record
\* or an error has taken at least one physical line, from the stream or from
\* the lookahead slot; so on a stream of L physical lines at most L calls
\* return a record or an error, and every call after the L-th returns
\* end-of-stream
C18_EveryCallConsumes ==
    \A s \in {Stream} :
        /\ Len(outcomes) < MaxCalls => ENABLED NextCall
        /\ \A k \in Calls :
            /\ outcomes[k].kind # "None" =>
                  outcomes[k].la \/ LinesIn(s, outcomes[k].from, outcomes[k].to) >= 1
            /\ k > LinesIn(s, 0, Len(s)) => outcomes[k].kind = "None"
        /\ Returned({"Ok", "InvalidFormat", "UnequalSeqAndQual"}) <= LinesIn(s, 0, Len(s))

\* a stream of three lines on which three calls returned a record, one of
\* them from the lookahead slot, and the fourth returned end-of-stream
C18_Witness ==
    \E s \in {Stream} :
        /\ LinesIn(s, 0, Len(s)) = 3
        /\ Len(outcomes) = 4
        /\ \A k \in 1..3 : outcomes[k].kind = "Ok"
        /\ outcomes[2].la
        /\ outcomes[4].kind = "None"

\* what the last call had to put into record_buf, from the bytes of the
\* stream it went over: the header line without sigil and terminator, the
\* lines read by the sequence loop up to the line it stopped on, and the
\* lines read by the quality loop, all without their terminators
HeaderLineOf(s, k) ==
    IF outcomes[k].la THEN outcomes[k - 1].la_after.val
    ELSE LineEndingAt(s, HeadTo(s, outcomes[k]))
StoppedOnPlus(s, o) ==
    /\ o.marks.fq
    /\ SeqTo(s, o) > HeadTo(s, o)
    /\ LineEndingAt(s, SeqTo(s, o))[1] = PLUS
HeaderBytes(s, k) == Tail(WithoutTerminators(HeaderLineOf(s, k)))
SequenceBytes(s, k) ==
    LET o == outcomes[k]
    IN WithoutTerminators(SubSeq(s, HeadTo(s, o) + 1,
           IF StoppedOnGt(s, o) \/ StoppedOnPlus(s, o)
           THEN LineStart(s, SeqTo(s, o)) - 1 ELSE SeqTo(s, o)))
QualityBytes(s, k) ==
    WithoutTerminators(SubSeq(s, SeqTo(s, outcomes[k]) + 1, outcomes[k].to))

\* C19: record_buf is emptied at the start of every call; when the call
\* returns a record, record_buf holds the header text, the sequence and the
\* quality of this record and nothing else, in that order, with
\* 0 <= header_end <= seq_end <= length; identifier and description lie in
\* [0, header_end), the sequence is [header_end, seq_end), the quality is
\* [seq_end, length)
C19_BufferHoldsThisRecord ==
    \A s \in {Stream} :
        outcomes # <<>> =>
            LET k == Len(outcomes)
                o == outcomes[k]
                header_end == o.marks.header_end
                seq_end == o.marks.seq_end
            IN /\ o.kind \in {"None", "InvalidFormat"} => record_buf = <<>>
               /\ o.kind = "Ok" =>
                     /\ 0 <= header_end
                     /\ header_end <= seq_end
                     /\ seq_end <= Len(record_buf)
                     /\ record_buf = HeaderBytes(s, k) \o SequenceBytes(s, k) \o QualityBytes(s, k)
                     /\ header_end = Len(HeaderBytes(s, k))
                     /\ seq_end = header_end + Len(SequenceBytes(s, k))
                     /\ SplitsAs(SubSeq(record_buf, 1, header_end), o.id, o.desc)
                     /\ o.seq = SubSeq(record_buf, header_end + 1, seq_end)
                     /\ o.qual = IF o.marks.fq
                                 THEN Some(SubSeq(record_buf, seq_end + 1, Len(record_buf)))
                                 ELSE None
                     /\ ~o.marks.fq => seq_end = Len(record_buf)

\* the second record of a stream, returned from the lookahead line after a
\* first record that left bytes in record_buf
C19_Witness ==
    /\ Len(outcomes) = 2
    /\ outcomes[1].kind = "Ok"
    /\ outcomes[1].seq # <<>>
    /\ outcomes[2].kind = "Ok"
    /\ outcomes[2].la
    /\ outcomes[2].seq # <<>>
    /\ record_buf = outcomes[2].id \o outcomes[2].seq

\* C20: a call returns UnequalSeqAndQual(e, a) only while parsing a
\* quality-bearing record, e is the length of the sequence region of that
\* record, a is the number of quality bytes the call appended to record_buf,
\* and e # a; the check after the quality loop and the final check would
\* report the same pair; a no-quality parse never returns this error
C20_UnequalReportsLengths ==
    \A s \in {Stream} :
        \A k \in Calls :
            LET o == outcomes[k] IN
            /\ (o.marks.parsed /\ o.marks.fq) =>
                  /\ o.marks.over = o.marks.final
                  /\ o.marks.over.e = Len(SequenceBytes(s, k))
                  /\ o.marks.over.a = Len(QualityBytes(s, k))
            /\ o.kind = "UnequalSeqAndQual" =>
                  /\ o.marks.fq
                  /\ HeaderLineOf(s, k)[1] = AT
                  /\ o.e = o.marks.seq_end - o.marks.header_end
                  /\ o.e = Len(SequenceBytes(s, k))
                  /\ o.a = Len(QualityBytes(s, k))
                  /\ o.e # o.a
                  /\ k = Len(outcomes) => o.a = Len(record_buf) - o.marks.seq_end
            /\ (o.marks.parsed /\ ~o.marks.fq) => o.kind = "Ok"

\* a stream that ends in the middle of the quality: the call appended some
\* quality bytes, fewer than the sequence has, and reports both numbers
C20_Witness ==
    \E s \in {Stream} :
        \E k \in Calls :
            /\ outcomes[k].kind = "UnequalSeqAndQual"
            /\ outcomes[k].a >= 1
            /\ outcomes[k].a < outcomes[k].e
            /\ outcomes[k].to = Len(s)


\* the quality bytes the call had appended before it read the line that
\* ends at offset p
QualityBefore(s, o, p) ==
    Len(WithoutTerminators(SubSeq(s, SeqTo(s, o) + 1, LineStart(s, p) - 1)))

\* C21: the quality loop is bounded by the byte count alone: it reads a line
\* only while fewer quality bytes than sequence bytes have been appended (none
\* at all for an empty sequence), it goes on until the count is reached or the
\* stream ends, it appends every line it reads whatever its first byte, and it
\* leaves the lookahead slot as the sequence loop left it; the line after the
\* one that completes the count is where the next call begins
C21_QualityBoundedByCount ==
    \A s \in {Stream} :
        \A k \in Calls :
            LET o == outcomes[k]
                seq_len == o.marks.seq_end - o.marks.header_end
            IN (o.marks.parsed /\ o.marks.fq) =>
                  /\ SeqTo(s, o) <= o.to
                  /\ seq_len = 0 => o.to = SeqTo(s, o)
                  /\ o.to > SeqTo(s, o) =>
                        /\ EndsALine(s, o.to)
                        /\ QualityBefore(s, o, o.to) < seq_len
                  /\ o.to = Len(s) \/ Len(QualityBytes(s, k)) >= seq_len
                  /\ o.marks.over.a = Len(QualityBytes(s, k))
                  /\ o.kind = "Ok" => o.qual = Some(QualityBytes(s, k))
                  /\ o.la_after.some <=> StoppedOnGt(s, o)
                  /\ o.la_after.some => o.la_after.val = LineEndingAt(s, SeqTo(s, o))
                  /\ k < Len(outcomes) => outcomes[k + 1].from = o.to

\* a quality line that begins with `>` completed the count, was returned as
\* quality, and the line after it was left for the next call
C21_Witness ==
    \E s \in {Stream} :
        /\ Len(outcomes) >= 2
        /\ outcomes[1].kind = "Ok"
        /\ outcomes[1].qual.some
        /\ outcomes[1].qual.val # <<>>
        /\ outcomes[1].qual.val[1] = GT
        /\ ~outcomes[1].la_after.some
        /\ outcomes[1].to < Len(s)
        /\ outcomes[2].from = outcomes[1].to

\* offset i of the stream is the first byte of a physical line
StartsALine(s, i) == i = 1 \/ s[i - 1] = LF

\* C22: the sequence loop stops only at the end of the stream, on a line that
\* begins with `>`, or, in a quality-bearing parse only, on a line that begins
\* with `+`, which is dropped with its content; every other line it reads is
\* appended without its terminator, a line that begins with `@` in either
\* format and a line that begins with `+` in a no-quality parse included
C22_SequenceStops ==
    \A s \in {Stream} :
        \A k \in Calls :
            LET o == outcomes[k] IN
            o.marks.parsed =>
                /\ HeadTo(s, o) <= SeqTo(s, o)
                /\ \/ SeqTo(s, o) = Len(s)
                   \/ StoppedOnGt(s, o)
                   \/ StoppedOnPlus(s, o)
                /\ \A i \in (HeadTo(s, o) + 1)..SeqTo(s, o) :
                       (/\ StartsALine(s, i)
                        /\ s[i] = GT \/ (o.marks.fq /\ s[i] = PLUS))
                           => i = LineStart(s, SeqTo(s, o))
                /\ o.marks.seq_end - o.marks.header_end = Len(SequenceBytes(s, k))
                /\ o.kind = "Ok" => o.seq = SequenceBytes(s, k)
                /\ (StoppedOnPlus(s, o) /\ ~StoppedOnGt(s, o)) => ~o.la_after.some
                /\ k = Len(outcomes) =>
                       SubSeq(record_buf, o.marks.header_end + 1, o.marks.seq_end)
                           = SequenceBytes(s, k)

\* a no-quality record whose sequence took in a line that begins with `+`
\* and a line that begins with `@`
C22_Witness ==
    \E k \in Calls :
        /\ outcomes[k].kind = "Ok"
        /\ ~outcomes[k].marks.fq
        /\ \E i \in 1..Len(outcomes[k].seq) : outcomes[k].seq[i] = PLUS
        /\ \E i \in 1..Len(outcomes[k].seq) : outcomes[k].seq[i] = AT
====
